---- MODULE Spec2Model ----
(***************************************************************************)
(* A model of the decoding toolkit of arc_unpacker:                        *)
(*   - decompress, apply_filter_2 and apply_delta_filter of the PGD image  *)
(*     decoder (fmt/amuse_craft/pgd_image_decoder),                        *)
(*   - read_compressed_pixel_data of the TGA image decoder,                *)
(*   - the recognition predicates of the ACD, PGD, PAK2 audio and TGA      *)
(*     decoders.                                                           *)
(* Each function is a state machine of its own: one record variable holds  *)
(* the locals of the running call, one action is one iteration of its      *)
(* loop.  Buffers are sequences of bytes (0..255); a pointer is the        *)
(* 0-based offset from the start of its buffer.                            *)
(***************************************************************************)
EXTENDS Integers, Sequences, FiniteSets, TLC

VARIABLES lz, rle, delta, yuv, rec

vars == <<lz, rle, delta, yuv, rec>>

\* The frame of a function that is not running in the specification at hand.
Idle == [pc |-> "idle"]

Min(a, b) == IF a < b THEN a ELSE b

---------------------------------------------------------------------------
\* The byte stream (io::IO / io::BufferedIO): a read of n bytes at position
\* pos succeeds when the stream holds them and fails (an exception)
\* otherwise; a seek succeeds up to the end of the stream.

CanRead(stream, pos, n) == pos + n <= Len(stream)

CanSeek(stream, pos) == pos >= 0 /\ pos <= Len(stream)

\* read(n): the n bytes at pos (0-based).
ReadBytes(stream, pos, n) == [i \in 1..n |-> stream[pos + i]]

\* bstr(n): a buffer of n bytes, zero-filled.
ZeroBuffer(n) == [i \in 1..n |-> 0]

---------------------------------------------------------------------------
\* decompress (the back-reference scheme)

\* Bounds of the inputs of decompress.
MaxInputLen == 6
MaxFairInputLen == 4
MaxSizeOrig == 3
LargeSizeOrig == 16

\* The bytes the short inputs are made of: as control byte 0 (8 literal
\* tokens), 1 (a back-reference first), 2 (a literal, then a back-reference),
\* 17 and 24; as literal count 0, 1, 2 (17, 24: more than the input holds);
\* as low byte of a token 24 (short form, count 4, look-behind 1 + 16*high),
\* and 0, 1, 2, 17 (long form, look-behind 17 \div 16 = 1 with high byte 0).
LzBytes == {0, 1, 2, 17, 24}

RECURSIVE SeqsUpTo(_, _)
SeqsUpTo(S, n) ==
    IF n = 0 THEN {<<>>}
    ELSE LET shorter == SeqsUpTo(S, n - 1)
         IN  shorter \cup {Append(s, b) : s \in {t \in shorter : Len(t) = n - 1}, b \in S}

\* Inputs that write 8 literal bytes and then decode one short-form token
\* with count bits 100: low byte 12 (look-behind 0), 140 (look-behind 8) or
\* 28 (look-behind 1), high byte 0.
LongInputs ==
    {<<2, 8>> \o lit \o <<low, 0>> : lit \in [1..8 -> {1, 2}], low \in {12, 28, 140}}

LzInputs == SeqsUpTo(LzBytes, MaxInputLen) \cup LongInputs

LzSizes == (0..MaxSizeOrig) \cup {LargeSizeOrig}

NoToken ==
    [kind |-> "none", tmp |-> 0, repetitions |-> 0, look_behind |-> 0,
     cursor |-> 0, copied |-> 0, reads |-> {}]

LzInit ==
    /\ \E input \in LzInputs, size_orig \in LzSizes :
          lz = [pc |-> "run", input |-> input, pos |-> 0,
                size_orig |-> size_orig, output |-> ZeroBuffer(size_orig),
                output_ptr |-> 0, control |-> 0, last |-> NoToken]
    /\ rle = Idle /\ delta = Idle /\ yuv = Idle /\ rec = Idle

\* output_ptr < output_end
InOutput(out, ptr) == ptr < Len(out)

\* *p for a pointer into the output buffer; a read outside it gives the
\* byte 0 here (the code never makes one, see Thm_C2).
Load(out, idx) == IF idx >= 0 /\ idx < Len(out) THEN out[idx + 1] ELSE 0

\* *p = v for a pointer into the output buffer.
Store(out, idx, v) ==
    IF idx >= 0 /\ idx < Len(out) THEN [out EXCEPT ![idx + 1] = v] ELSE out

\* while (output_ptr < output_end && repetitions--)
CopyGuard_NoEnd(out, ptr, repetitions) == repetitions > 0
CopyGuard(out, ptr, repetitions) == InOutput(out, ptr) /\ repetitions > 0

\* The copy loop of a back-reference: *output_ptr++ = *src_ptr++, byte by
\* byte, so that a source overlapping the destination repeats itself.
RECURSIVE CopyBack(_, _, _, _)
CopyBack(out, ptr, src, repetitions) ==
    IF CopyGuard(out, ptr, repetitions)
    THEN CopyBack(Store(out, ptr, Load(out, src)), ptr + 1, src + 1, repetitions - 1)
    ELSE [output |-> out, output_ptr |-> ptr]

\* The copy loop of a literal run: chunk[k + 1] is *src_ptr.
RECURSIVE CopyLiteral(_, _, _, _, _)
CopyLiteral(out, ptr, chunk, k, repetitions) ==
    IF CopyGuard(out, ptr, repetitions)
    THEN CopyLiteral(Store(out, ptr, chunk[k + 1]), ptr + 1, chunk, k + 1, repetitions - 1)
    ELSE [output |-> out, output_ptr |-> ptr]

\* control >>= 1; if (!(control & 0x100)) control = read_u8() | 0xFF00;
NextControl(s) ==
    LET shifted == s.control \div 2
    IN  IF (shifted \div 256) % 2 = 1
        THEN [s EXCEPT !.control = shifted]
        ELSE IF ~CanRead(s.input, s.pos, 1)
             THEN [s EXCEPT !.pc = "eof"]
             ELSE [s EXCEPT !.control = s.input[s.pos + 1] + 65280,
                            !.pos = s.pos + 1]

\* Short form: repetitions = (tmp & 7) + 4, look_behind = tmp >> 4.
ShortRepetitions(tmp) == (tmp % 8) + 4
ShortLookBehind(tmp) == tmp \div 16

\* Long form: repetitions = ((((tmp & 0xFFC) >> 2) + 1) << 2) | (tmp & 3),
\* look_behind = tmp >> 12.
LongRepetitions(tmp) == ((((tmp \div 4) % 1024) + 1) * 4) + (tmp % 4)
LongLookBehind(tmp) == tmp \div 4096

\* if (src_ptr < output_start) throw err::BadDataOffsetError();
BadOffset_Unchecked(src_ptr) == FALSE
BadOffset(src_ptr) == src_ptr < 0

\* auto src_ptr = output_ptr - look_behind;
SrcPtr_OneBefore(output_ptr, look_behind) == output_ptr - look_behind - 1
SrcPtr(output_ptr, look_behind) == output_ptr - look_behind

\* The back-reference copy of a decoded token, or BadDataOffsetError.
BackRefCopy(s, kind, tmp, repetitions, look_behind) ==
    LET src  == SrcPtr(s.output_ptr, look_behind)
        tok  == [kind |-> kind, tmp |-> tmp, repetitions |-> repetitions,
                 look_behind |-> look_behind, cursor |-> s.output_ptr,
                 copied |-> 0, reads |-> {}]
    IN  IF BadOffset(src)
        THEN [s EXCEPT !.pc = "bad_offset", !.last = tok]
        ELSE LET c == CopyBack(s.output, s.output_ptr, src, repetitions)
                 n == c.output_ptr - s.output_ptr
             IN  [s EXCEPT !.output = c.output, !.output_ptr = c.output_ptr,
                           !.last = [tok EXCEPT !.copied = n,
                                                !.reads = {src + i : i \in 0..(n - 1)}]]

\* The branch of a 1 control bit: read_u16_le, then the short or (after a
\* third byte) the long form. s is the frame after NextControl.
BackRefToken(s) ==
    IF ~CanRead(s.input, s.pos, 2)
    THEN [s EXCEPT !.pc = "eof"]
    ELSE LET tmp16 == s.input[s.pos + 1] + 256 * s.input[s.pos + 2]
         IN  IF (tmp16 \div 8) % 2 = 1
             THEN BackRefCopy([s EXCEPT !.pos = s.pos + 2], "short", tmp16,
                              ShortRepetitions(tmp16), ShortLookBehind(tmp16))
             ELSE IF ~CanRead(s.input, s.pos + 2, 1)
                  THEN [s EXCEPT !.pc = "eof", !.pos = s.pos + 2]
                  \* tmp = (tmp << 8) | read_u8(): below 2^24, inside the u32
                  ELSE LET tmp == tmp16 * 256 + s.input[s.pos + 3]
                       IN  BackRefCopy([s EXCEPT !.pos = s.pos + 3], "long", tmp,
                                       LongRepetitions(tmp), LongLookBehind(tmp))

\* The input position after the literal branch has read its count byte and
\* its repetitions bytes.
LiteralEnd_Peek(pos, repetitions) == IF repetitions = 0 THEN pos ELSE pos + 1 + repetitions
LiteralEnd(pos, repetitions) == pos + 1 + repetitions

\* The branch of a 0 control bit: repetitions = read_u8(), read(repetitions),
\* then the copy. s is the frame after NextControl.
LiteralToken(s) ==
    IF ~CanRead(s.input, s.pos, 1)
    THEN [s EXCEPT !.pc = "eof"]
    ELSE LET repetitions == s.input[s.pos + 1]
         IN  IF ~CanRead(s.input, s.pos + 1, repetitions)
             THEN [s EXCEPT !.pc = "eof", !.pos = s.pos + 1]
             ELSE LET chunk == ReadBytes(s.input, s.pos + 1, repetitions)
                      c == CopyLiteral(s.output, s.output_ptr, chunk, 0, repetitions)
                  IN  [s EXCEPT !.pos = LiteralEnd(s.pos, repetitions),
                                !.output = c.output, !.output_ptr = c.output_ptr,
                                !.last = [kind |-> "literal", tmp |-> 0,
                                          repetitions |-> repetitions,
                                          look_behind |-> 0,
                                          cursor |-> s.output_ptr,
                                          copied |-> c.output_ptr - s.output_ptr,
                                          reads |-> {}]]

\* One iteration of the main loop whose control bit is 1.
LzBackRef ==
    /\ lz.pc = "run"
    /\ InOutput(lz.output, lz.output_ptr)
    /\ LET s == NextControl(lz)
       IN  /\ s.pc = "run"
           /\ s.control % 2 = 1
           /\ lz' = BackRefToken(s)
    /\ UNCHANGED <<rle, delta, yuv, rec>>

\* One iteration of the main loop whose control bit is 0.
LzLiteral ==
    /\ lz.pc = "run"
    /\ InOutput(lz.output, lz.output_ptr)
    /\ LET s == NextControl(lz)
       IN  /\ s.pc = "run"
           /\ s.control % 2 = 0
           /\ lz' = LiteralToken(s)
    /\ UNCHANGED <<rle, delta, yuv, rec>>

\* One iteration of the main loop that finds no control byte to read.
LzNoControl ==
    /\ lz.pc = "run"
    /\ InOutput(lz.output, lz.output_ptr)
    /\ LET s == NextControl(lz)
       IN  /\ s.pc = "eof"
           /\ lz' = s
    /\ UNCHANGED <<rle, delta, yuv, rec>>

\* The loop ends: return output.
LzReturn ==
    /\ lz.pc = "run"
    /\ ~InOutput(lz.output, lz.output_ptr)
    /\ lz' = [lz EXCEPT !.pc = "done"]
    /\ UNCHANGED <<rle, delta, yuv, rec>>

\* decompress on the inputs of at most MaxFairInputLen bytes and the sizes
\* up to MaxSizeOrig.
LzInitShort ==
    LzInit /\ Len(lz.input) <= MaxFairInputLen /\ lz.size_orig <= MaxSizeOrig

LzNext == LzBackRef \/ LzLiteral \/ LzNoControl \/ LzReturn

SpecLz == LzInit /\ [][LzNext]_vars

\* decompress is a sequential loop: a call that can take a step takes it.
SpecLzFair == LzInitShort /\ [][LzNext]_vars /\ WF_vars(LzNext)

---------------------------------------------------------------------------
\* read_compressed_pixel_data (the run-length scheme of the TGA decoder)

MaxRleLen == 4
MaxRleDim == 2
MaxRleChannels == 2

\* As control byte: 0 and 1 are literal runs of 1 and 2 chunks, 128 and 129
\* repeat one chunk 1 and 2 times.
RleBytes == {0, 1, 128, 129}

\* output.reserve(n): the capacity of the buffer afterwards.
Reserve(n) == n

RleInit ==
    /\ \E stream \in SeqsUpTo(RleBytes, MaxRleLen),
          width \in 0..MaxRleDim, height \in 0..MaxRleDim,
          channels \in 0..MaxRleChannels :
          rle = [pc |-> "run", stream |-> stream, pos |-> 0,
                 width |-> width, height |-> height, channels |-> channels,
                 capacity |-> Reserve(width * height * channels),
                 output |-> <<>>]
    /\ lz = Idle /\ delta = Idle /\ yuv = Idle /\ rec = Idle

\* while (output.size() < output.capacity())
RleLoopGuard(r) == Len(r.output) < r.capacity

\* repetitions = (control & 0x7F) + 1
RleRepetitions(control) == (control % 128) + 1

\* use_rle = control & 0x80
UseRle(control) == (control \div 128) % 2 = 1

\* for (i : range(repetitions)) output += chunk;
RECURSIVE Repeated(_, _)
Repeated(chunk, repetitions) ==
    IF repetitions = 0 THEN <<>> ELSE chunk \o Repeated(chunk, repetitions - 1)

\* The number of chunks of `channels` bytes that `repetitions` reads of
\* read(channels) return before the stream runs out.
ChunksRead(stream, pos, channels, repetitions) ==
    IF channels = 0 THEN repetitions
    ELSE Min(repetitions, (Len(stream) - pos) \div channels)

\* One packet with the high bit set: one chunk, appended repetitions times.
RleRepeat ==
    /\ rle.pc = "run"
    /\ RleLoopGuard(rle)
    /\ CanRead(rle.stream, rle.pos, 1)
    /\ LET control == rle.stream[rle.pos + 1]
           pos == rle.pos + 1
       IN  /\ UseRle(control)
           /\ IF ~CanRead(rle.stream, pos, rle.channels)
              THEN rle' = [rle EXCEPT !.pc = "eof", !.pos = pos]
              ELSE rle' = [rle EXCEPT
                              !.pos = pos + rle.channels,
                              !.output = rle.output \o
                                  Repeated(ReadBytes(rle.stream, pos, rle.channels),
                                           RleRepetitions(control))]
    /\ UNCHANGED <<lz, delta, yuv, rec>>

\* One packet with the high bit clear: repetitions chunks, each read and
\* appended; a read that fails ends the call with what was appended so far.
RleRaw ==
    /\ rle.pc = "run"
    /\ RleLoopGuard(rle)
    /\ CanRead(rle.stream, rle.pos, 1)
    /\ LET control == rle.stream[rle.pos + 1]
           pos == rle.pos + 1
           n == ChunksRead(rle.stream, pos, rle.channels, RleRepetitions(control))
       IN  /\ ~UseRle(control)
           /\ rle' = [rle EXCEPT
                         !.pc = IF n < RleRepetitions(control) THEN "eof" ELSE "run",
                         !.pos = pos + n * rle.channels,
                         !.output = rle.output \o
                             ReadBytes(rle.stream, pos, n * rle.channels)]
    /\ UNCHANGED <<lz, delta, yuv, rec>>

\* The stream holds no control byte.
RleNoControl ==
    /\ rle.pc = "run"
    /\ RleLoopGuard(rle)
    /\ ~CanRead(rle.stream, rle.pos, 1)
    /\ rle' = [rle EXCEPT !.pc = "eof"]
    /\ UNCHANGED <<lz, delta, yuv, rec>>

\* return output
RleReturn ==
    /\ rle.pc = "run"
    /\ ~RleLoopGuard(rle)
    /\ rle' = [rle EXCEPT !.pc = "done"]
    /\ UNCHANGED <<lz, delta, yuv, rec>>

RleNext == RleRepeat \/ RleRaw \/ RleNoControl \/ RleReturn

SpecRle == RleInit /\ [][RleNext]_vars

---------------------------------------------------------------------------
\* apply_delta_filter (the delta line filters of the PGD decoder)

MaxDeltaWidth == 2
MaxDeltaHeight == 2
MaxDeltaChannels == 2

\* The selector bytes: the three codes and one unknown code.
DeltaCodes == {1, 2, 3, 4}

\* The unfiltered buffers: byte i is first + i * step modulo 256.
DeltaSeeds == {<<100, 226>>, <<0, 1>>, <<255, 77>>, <<7, 128>>}

Pattern(seed, n) == [i \in 1..n |-> (seed[1] + (i - 1) * seed[2]) % 256]

\* What a read of the memory before the output buffer may return.
OobBytes == {0, 85}

\* The forward transform of the filters: stored = prediction - original
\* modulo 256, the prediction being the previous channel group of the row
\* (code 1), the byte of the row above, 0 above row 0 (code 2), or the
\* integer mean of the two (code 4); codes 1 and 4 leave the first channel
\* group as it is.
ForwardDelta(original, codes, stride, channels, height) ==
    [i \in 1..(height * stride) |->
        LET y == (i - 1) \div stride
            x == (i - 1) % stride
            code == codes[y + 1]
            above == IF y = 0 THEN 0 ELSE original[i - stride]
        IN  IF code = 2 THEN (above - original[i]) % 256
            ELSE IF code \in {1, 4} /\ x >= channels
            THEN IF code = 1
                 THEN (original[i - channels] - original[i]) % 256
                 ELSE (((above + original[i - channels]) \div 2) - original[i]) % 256
            ELSE original[i]]

\* The calls: a selector array of height - 1, height or height + 1 codes,
\* and the transformed buffer, as it is, without its last byte or with one
\* byte more.
DeltaInit ==
    /\ \E width \in 1..MaxDeltaWidth, height \in 1..MaxDeltaHeight,
          channels \in 1..MaxDeltaChannels, seed \in DeltaSeeds :
       \E delta_spec \in {c \in SeqsUpTo(DeltaCodes, height + 1) : Len(c) >= height - 1},
          cut \in {-1, 0, 1} :
          LET stride == width * channels
              original == Pattern(seed, height * stride)
              stored == IF Len(delta_spec) >= height
                        THEN ForwardDelta(original, delta_spec, stride, channels, height)
                        ELSE original
              input == CASE cut = -1 -> SubSeq(stored, 1, Len(stored) - 1)
                         [] cut = 0  -> stored
                         [] cut = 1  -> Append(stored, 0)
          IN  delta = [pc |-> "check", delta_spec |-> delta_spec, input |-> input,
                       width |-> width, height |-> height, channels |-> channels,
                       original |-> original, output |-> <<>>, y |-> 0,
                       oob_read |-> FALSE]
    /\ lz = Idle /\ rle = Idle /\ yuv = Idle /\ rec = Idle

\* if (delta_spec.size() != height) throw err::BadDataSizeError();
SelectorSizeBad_Shorter(delta_spec, height) == Len(delta_spec) < height
SelectorSizeBad(delta_spec, height) == Len(delta_spec) # height

\* if (input.size() < width * height * channels) throw err::BadDataSizeError();
InputSizeBad(input, width, height, channels) ==
    Len(input) < width * height * channels

\* The two size checks, then bstr output(input).
DeltaCheck ==
    /\ delta.pc = "check"
    /\ IF \/ SelectorSizeBad(delta.delta_spec, delta.height)
          \/ InputSizeBad(delta.input, delta.width, delta.height, delta.channels)
       THEN delta' = [delta EXCEPT !.pc = "size_error"]
       ELSE delta' = [delta EXCEPT !.pc = "rows", !.output = delta.input]
    /\ UNCHANGED <<lz, rle, yuv, rec>>

\* prev_line[x], prev_line = output.get<u8>() + (y - 1) * stride: for y = 0
\* the pointer is stride bytes before the buffer and the read returns
\* whatever memory holds there (oob).
PrevLine(out, y, stride, x, oob) ==
    IF y = 0 THEN oob ELSE out[(y - 1) * stride + x + 1]

\* for (x : range(channels, stride)) dst_line[x] = dst_line[x - channels] - dst_line[x];
RECURSIVE Row1(_, _, _, _, _)
Row1(out, base, x, channels, stride) ==
    IF x >= stride THEN out
    ELSE Row1([out EXCEPT ![base + x + 1] =
                   (out[base + x - channels + 1] - out[base + x + 1]) % 256],
              base, x + 1, channels, stride)

\* for (x : range(stride)) dst_line[x] = prev_line[x] - dst_line[x];
RECURSIVE Row2(_, _, _, _, _)
Row2(out, y, x, stride, oob) ==
    IF x >= stride THEN out
    ELSE Row2([out EXCEPT ![y * stride + x + 1] =
                   (PrevLine(out, y, stride, x, oob) - out[y * stride + x + 1]) % 256],
              y, x + 1, stride, oob)

\* for (x : range(channels, stride)) { mean = (prev_line[x] +
\* dst_line[x - channels]) / 2; dst_line[x] = mean - dst_line[x]; }
RECURSIVE Row4(_, _, _, _, _, _)
Row4(out, y, x, channels, stride, oob) ==
    IF x >= stride THEN out
    ELSE LET mean == (PrevLine(out, y, stride, x, oob)
                      + out[y * stride + x - channels + 1]) \div 2
         IN  Row4([out EXCEPT ![y * stride + x + 1] =
                       (mean - out[y * stride + x + 1]) % 256],
                  y, x + 1, channels, stride, oob)

\* Whether the filter of row y reads prev_line at least once.
ReadsPrevLine(code, channels, stride) ==
    \/ code = 2 /\ stride > 0
    \/ code = 4 /\ stride > channels

\* One iteration of the loop over the rows.
DeltaRow ==
    /\ delta.pc = "rows"
    /\ delta.y < delta.height
    /\ LET y == delta.y
           channels == delta.channels
           stride == delta.width * delta.channels
           code == delta.delta_spec[y + 1]
       IN  \E oob \in OobBytes :
             /\ (y > 0 \/ ~ReadsPrevLine(code, channels, stride)) => oob = 0
             /\ delta' =
                  IF code = 1 THEN
                      [delta EXCEPT !.y = y + 1,
                          !.output = Row1(delta.output, y * stride, channels, channels, stride)]
                  ELSE IF code = 2 THEN
                      [delta EXCEPT !.y = y + 1,
                          !.output = Row2(delta.output, y, 0, stride, oob),
                          !.oob_read = delta.oob_read \/ (y = 0 /\ stride > 0)]
                  ELSE IF code = 4 THEN
                      [delta EXCEPT !.y = y + 1,
                          !.output = Row4(delta.output, y, channels, channels, stride, oob),
                          !.oob_read = delta.oob_read \/ (y = 0 /\ stride > channels)]
                  ELSE [delta EXCEPT !.pc = "corrupt"]
    /\ UNCHANGED <<lz, rle, yuv, rec>>

\* return output
DeltaReturn ==
    /\ delta.pc = "rows"
    /\ delta.y >= delta.height
    /\ delta' = [delta EXCEPT !.pc = "done"]
    /\ UNCHANGED <<lz, rle, yuv, rec>>

DeltaNext == DeltaCheck \/ DeltaRow \/ DeltaReturn

SpecDelta == DeltaInit /\ [][DeltaNext]_vars

---------------------------------------------------------------------------
\* apply_filter_2 (the planar-chroma upsampling of the PGD decoder)

MaxYuvDim == 4

\* The inputs: byte i is first + i * step modulo 256.
YuvSeeds == {<<f, st>> : f \in {0, 100, 128, 255}, st \in {1, 127, 255}}

\* The even widths and heights.
YuvDims == {d \in 2..MaxYuvDim : d % 2 = 0}

\* const std::initializer_list<size_t> indices = { 0, 1, width, width + 1 };
YuvIndices_OneRow(width) == <<0, 1, 2, 3>>
YuvIndices(width) == <<0, 1, width, width + 1>>

YuvInit ==
    /\ \E width \in YuvDims, height \in YuvDims, seed \in YuvSeeds :
          LET block_size == (width * height) \div 4
          IN  yuv = [pc |-> "run",
                     input |-> Pattern(seed, 2 * block_size + width * height),
                     width |-> width, height |-> height,
                     plane1 |-> 0, plane2 |-> block_size, plane3 |-> 2 * block_size,
                     output |-> ZeroBuffer(height * width * 3),
                     output_ptr |-> 0, x |-> 0, y |-> 0,
                     writes |-> [i \in 1..(height * width * 3) |-> 0],
                     oob |-> FALSE]
    /\ lz = Idle /\ rle = Idle /\ delta = Idle /\ rec = Idle

\* static inline u8 clamp(const long v)
clamp(v) == IF v > 255 THEN 255 ELSE IF v < 0 THEN 0 ELSE v

\* The value of a byte read through a pointer to s8.
S8(byte) == IF byte >= 128 THEN byte - 256 ELSE byte

\* p[idx] for a pointer into the input; idx is the offset from the start.
InputAt(input, idx) == IF idx >= 0 /\ idx < Len(input) THEN input[idx + 1] ELSE 0

\* output_ptr[k] = v, counted; a write outside the buffer is recorded.
Put(st, idx, v) ==
    IF idx >= 0 /\ idx < Len(st.output)
    THEN [st EXCEPT !.output[idx + 1] = v, !.writes[idx + 1] = st.writes[idx + 1] + 1]
    ELSE [st EXCEPT !.oob = TRUE]

\* Whether offset idx of the input lies in plane n: the planes are
\* [0, block_size), [block_size, 2*block_size) and the width*height bytes
\* that follow.
InPlane(st, n, idx) ==
    LET block_size == (st.width * st.height) \div 4
    IN  /\ idx < Len(st.input)
        /\ CASE n = 1 -> idx >= 0 /\ idx < block_size
              [] n = 2 -> idx >= block_size /\ idx < 2 * block_size
              [] n = 3 -> idx >= 2 * block_size
                          /\ idx < 2 * block_size + st.width * st.height

\* The body of the loop over the indices, for indices[k..]: base =
\* plane3[index] << 7, then the three bytes clamp((base + value) >> 7).
RECURSIVE PutPixels(_, _, _, _, _, _)
PutPixels(st, indices, k, value_b, value_g, value_r) ==
    IF k > Len(indices) THEN st
    ELSE LET index == indices[k]
             luma == st.plane3 + index
             base == InputAt(st.input, luma) * 128
             o == st.output_ptr + 3 * index
             s0 == IF InPlane(st, 3, luma) THEN st ELSE [st EXCEPT !.oob = TRUE]
             s1 == Put(s0, o, clamp((base + value_b) \div 128))
             s2 == Put(s1, o + 1, clamp((base + value_g) \div 128))
             s3 == Put(s2, o + 2, clamp((base + value_r) \div 128))
         IN  PutPixels(s3, indices, k + 1, value_b, value_g, value_r)

\* One iteration of the loop over x: a block of 2 x 2 pixels; after the
\* last block of a row, the end of the iteration of the loop over y.
YuvBlock ==
    /\ yuv.pc = "run"
    /\ yuv.y < yuv.height \div 2
    /\ LET cb == S8(InputAt(yuv.input, yuv.plane1))
           cr == S8(InputAt(yuv.input, yuv.plane2))
           st == PutPixels(yuv, YuvIndices(yuv.width), 1,
                           226 * cb, (-43) * cb - 89 * cr, 179 * cr)
           next == [st EXCEPT !.plane1 = yuv.plane1 + 1,
                              !.plane2 = yuv.plane2 + 1,
                              !.plane3 = yuv.plane3 + 2,
                              !.output_ptr = yuv.output_ptr + 6,
                              !.x = yuv.x + 1,
                              !.oob = \/ st.oob
                                      \/ ~InPlane(yuv, 1, yuv.plane1)
                                      \/ ~InPlane(yuv, 2, yuv.plane2)]
       IN  yuv' = IF next.x < yuv.width \div 2 THEN next
                  ELSE [next EXCEPT !.plane3 = next.plane3 + yuv.width,
                                    !.output_ptr = next.output_ptr + yuv.width * 3,
                                    !.x = 0, !.y = yuv.y + 1]
    /\ UNCHANGED <<lz, rle, delta, rec>>

\* return output
YuvReturn ==
    /\ yuv.pc = "run"
    /\ yuv.y >= yuv.height \div 2
    /\ yuv' = [yuv EXCEPT !.pc = "done"]
    /\ UNCHANGED <<lz, rle, delta, rec>>

YuvNext == YuvBlock \/ YuvReturn

SpecYuv == YuvInit /\ [][YuvNext]_vars

---------------------------------------------------------------------------
\* The recognition predicates of the decoders

\* static const bstr magic of each decoder.
AcdMagic == <<65, 67, 68, 32, 49, 46, 48, 48>>
PgdMagic == <<71, 69, 32, 0>>
Pak2Magic == <<3, 149, 173, 75>>
TgaMagic == <<84, 82, 85, 69, 86, 73, 83, 73, 79, 78, 45, 88, 70, 73, 76, 69, 46, 0>>

\* Streams that carry a signature where its decoder looks for it.
RecFiles ==
    {AcdMagic \o <<0>>, PgdMagic \o <<0>>, <<0, 0, 0, 0>> \o Pak2Magic \o <<0>>,
     <<0>> \o TgaMagic}

\* The streams probed: every prefix of those files, as it is and with its
\* last byte changed.
RecStreams ==
    LET whole == UNION {{SubSeq(f, 1, n) : n \in 0..Len(f)} : f \in RecFiles}
    IN  whole \cup {[p EXCEPT ![Len(p)] = (p[Len(p)] + 1) % 256] : p \in whole \ {<<>>}}

RecInit ==
    /\ \E decoder \in {"acd", "pgd", "pak2", "tga"}, stream \in RecStreams,
          tga_extension \in BOOLEAN :
          rec = [pc |-> "call", decoder |-> decoder, stream |-> stream,
                 tga_extension |-> tga_extension, result |-> FALSE]
    /\ lz = Idle /\ rle = Idle /\ delta = Idle /\ yuv = Idle

\* a - b in size_t. The difference of two stream sizes wraps to a value no
\* stream is as long as: the model wraps at 2^31, the largest modulus the
\* model checker's integers hold, the code at 2^64.
SubSizeT(a, b) == IF a >= b THEN a - b ELSE (a - b) + 2147483647 + 1

\* file.io.read(magic.size()) == magic at position pos of the stream; a
\* read that fails leaves the predicate by an exception.
ReadCompare(r, pos, magic) ==
    IF ~CanRead(r.stream, pos, Len(magic))
    THEN [r EXCEPT !.pc = "io_error"]
    ELSE [r EXCEPT !.pc = "returned",
                   !.result = (ReadBytes(r.stream, pos, Len(magic)) = magic)]

\* file.io.seek(pos), then the read and the comparison; a seek that fails
\* leaves the predicate by an exception.
SeekReadCompare(r, pos, magic) ==
    IF ~CanSeek(r.stream, pos)
    THEN [r EXCEPT !.pc = "io_error"]
    ELSE ReadCompare(r, pos, magic)

\* AcdImageDecoder::is_recognized_internal: the stream is at its start.
AcdIsRecognized ==
    /\ rec.pc = "call" /\ rec.decoder = "acd"
    /\ rec' = ReadCompare(rec, 0, AcdMagic)
    /\ UNCHANGED <<lz, rle, delta, yuv>>

\* PgdImageDecoder::is_recognized_impl: the stream is at its start.
PgdIsRecognized ==
    /\ rec.pc = "call" /\ rec.decoder = "pgd"
    /\ rec' = ReadCompare(rec, 0, PgdMagic)
    /\ UNCHANGED <<lz, rle, delta, yuv>>

\* Pak2AudioDecoder::is_recognized_impl: seek(4), then the comparison.
Pak2IsRecognized ==
    /\ rec.pc = "call" /\ rec.decoder = "pak2"
    /\ rec' = SeekReadCompare(rec, 4, Pak2Magic)
    /\ UNCHANGED <<lz, rle, delta, yuv>>

\* TgaImageDecoder::is_recognized_impl: seek(size() - magic.size()), the
\* comparison, and has_extension("tga") when the footer is not there.
TgaIsRecognized ==
    /\ rec.pc = "call" /\ rec.decoder = "tga"
    /\ LET r == SeekReadCompare(rec, SubSizeT(Len(rec.stream), Len(TgaMagic)), TgaMagic)
       IN  rec' = IF r.pc = "returned" /\ ~r.result
                  THEN [r EXCEPT !.result = rec.tga_extension]
                  ELSE r
    /\ UNCHANGED <<lz, rle, delta, yuv>>

RecNext == AcdIsRecognized \/ PgdIsRecognized \/ Pak2IsRecognized \/ TgaIsRecognized

SpecRec == RecInit /\ [][RecNext]_vars

---------------------------------------------------------------------------
\* Claims about decompress

\* C1: the output buffer of decompress always has length size_orig and the
\* write cursor never exceeds size_orig; a token that decoded without error
\* copies min(repetitions, size_orig - cursor) bytes, so a run that would
\* pass the end is cut off there; decompress returns with the cursor at
\* size_orig.
Thm_C1 ==
    lz.pc # "idle" =>
        /\ Len(lz.output) = lz.size_orig
        /\ lz.output_ptr >= 0 /\ lz.output_ptr <= lz.size_orig
        /\ (lz.last.kind # "none" /\ lz.pc # "bad_offset") =>
              /\ lz.last.copied = Min(lz.last.repetitions, lz.size_orig - lz.last.cursor)
              /\ lz.last.cursor + lz.last.copied <= lz.size_orig
        /\ lz.pc = "done" => lz.output_ptr = lz.size_orig

\* decompress has returned after a back-reference that was cut off at the
\* end of the buffer.
Wit_C1 ==
    /\ lz.pc = "done"
    /\ lz.last.kind \in {"short", "long"}
    /\ lz.last.copied > 0
    /\ lz.last.copied < lz.last.repetitions

\* C2: a back-reference token whose look_behind is greater than the output
\* cursor ends decoding with BadDataOffsetError and copies nothing; one
\* whose look_behind is at most the cursor does not, and its copy reads
\* only indices in [0, size_orig) of the output buffer.
Thm_C2 ==
    (lz.pc # "idle" /\ lz.last.kind \in {"short", "long"}) =>
        IF lz.last.look_behind > lz.last.cursor
        THEN /\ lz.pc = "bad_offset"
             /\ lz.last.copied = 0
             /\ lz.last.reads = {}
             /\ lz.output_ptr = lz.last.cursor
        ELSE /\ lz.pc # "bad_offset"
             /\ \A i \in lz.last.reads : i >= 0 /\ i < lz.size_orig

\* A back-reference decoded after some output was produced reaches before
\* the start of the buffer.
Wit_C2 ==
    /\ lz.pc = "bad_offset"
    /\ lz.last.cursor > 0
    /\ lz.last.look_behind > lz.last.cursor

\* A short-form token with count bits 100.
IsCount100(t) == t.kind = "short" /\ t.tmp % 8 = 4

\* C3 as stated: after a short-form token with count bits 100 and
\* look-behind 0 that wrote 8 bytes, the 8 new bytes equal the 8 bytes
\* before the cursor.
CE_C3 ==
    (/\ lz.pc # "idle" /\ lz.pc # "bad_offset"
     /\ IsCount100(lz.last)
     /\ lz.last.tmp \div 16 = 0
     /\ lz.last.cursor >= 8
     /\ lz.last.copied = 8) =>
        \A i \in 1..8 :
            lz.output[lz.last.cursor + i] = lz.output[lz.last.cursor - 8 + i]

\* C3, amended: a short-form token with count bits 100 has repetitions 8
\* and writes min(8, size_orig - cursor) bytes; with look-behind 0 every
\* byte is copied onto itself, so the buffer is left as it was and only the
\* cursor moves; with look-behind 8 the new bytes are the bytes that
\* preceded the cursor.
C3Step ==
    (lz.pc = "run" /\ lz'.pc = "run" /\ lz' # lz /\ IsCount100(lz'.last)) =>
        /\ lz'.last.repetitions = 8
        /\ lz'.last.cursor = lz.output_ptr
        /\ lz'.last.copied = Min(8, lz.size_orig - lz.output_ptr)
        /\ lz'.output_ptr = lz.output_ptr + lz'.last.copied
        /\ (lz'.last.tmp \div 16 = 0) => lz'.output = lz.output
        /\ (lz'.last.tmp \div 16 = 8) =>
              \A i \in 1..lz'.last.copied :
                  lz'.output[lz.output_ptr + i] = lz.output[lz.output_ptr - 8 + i]

Thm_C3 == [][C3Step]_vars

\* The token 0x000C was decoded with 8 bytes, not all zero, before the
\* cursor and room for 8 more: the 8 bytes at the cursor are still zero.
Wit_C3 ==
    /\ lz.pc = "run"
    /\ IsCount100(lz.last) /\ lz.last.tmp = 12
    /\ lz.last.cursor = 8 /\ lz.last.copied = 8
    /\ \A i \in 1..8 : lz.output[i] # 0
    /\ \A i \in 9..16 : lz.output[i] = 0

\* C10: every iteration of the main loop advances the output cursor,
\* consumes input or fails; decompress ends, with the buffer full or with a
\* failure.
LzProgress ==
    lz.pc = "run" =>
        \/ lz'.output_ptr > lz.output_ptr
        \/ lz'.pos > lz.pos
        \/ lz'.pc # "run"

Thm_C10 ==
    /\ [][LzProgress]_vars
    /\ <>(lz.pc \in {"done", "eof", "bad_offset"})
    /\ [](lz.pc = "done" => lz.output_ptr = lz.size_orig)

\* The input ran out after a literal token with count 0.
Wit_C10 ==
    /\ lz.pc = "eof"
    /\ lz.last.kind = "literal" /\ lz.last.repetitions = 0
    /\ lz.pos = Len(lz.input)
    /\ lz.output_ptr < lz.size_orig

---------------------------------------------------------------------------
\* Claims about read_compressed_pixel_data

\* C4: read_compressed_pixel_data never holds more than
\* width*height*channels bytes and returns exactly that many.
CE_C4 ==
    rle.pc # "idle" =>
        /\ Len(rle.output) <= rle.width * rle.height * rle.channels
        /\ rle.pc = "done" =>
              Len(rle.output) = rle.width * rle.height * rle.channels

---------------------------------------------------------------------------
\* Claims about apply_delta_filter

\* C5: every byte of a reconstructed row with selector 2 is the byte of the
\* reconstructed row above (0 above row 0) minus the stored value, modulo
\* 256, and no byte outside the buffer is read.
CE_C5 ==
    delta.pc \in {"rows", "done", "corrupt"} =>
        /\ ~delta.oob_read
        /\ \A y \in 0..(delta.y - 1) :
              delta.delta_spec[y + 1] = 2 =>
                  \A x \in 0..(delta.width * delta.channels - 1) :
                      LET i == y * delta.width * delta.channels + x + 1
                          above == IF y = 0 THEN 0
                                   ELSE delta.output[i - delta.width * delta.channels]
                      IN  delta.output[i] = (above - delta.input[i]) % 256

\* C6: with one selector code c of 1, 2, 4 on every row and the input the
\* forward transform of the original buffer, apply_delta_filter returns the
\* original buffer.
CE_C6 ==
    (/\ delta.pc = "done"
     /\ \E c \in {1, 2, 4} : \A y \in 1..delta.height : delta.delta_spec[y] = c
     /\ Len(delta.input) = Len(delta.original)) =>
        delta.output = delta.original

\* C7 as stated: SizeMismatch exactly when the input is shorter than
\* width*height*channels or the selector array is shorter than height.
CE_C7 ==
    delta.pc \notin {"idle", "check"} =>
        (delta.pc = "size_error") <=>
            \/ Len(delta.input) < delta.width * delta.height * delta.channels
            \/ Len(delta.delta_spec) < delta.height

\* C7, amended: apply_delta_filter fails with BadDataSizeError, before it
\* reconstructs any row, exactly when the input is shorter than
\* width*height*channels or the length of the selector array differs from
\* height.
Thm_C7 ==
    delta.pc \notin {"idle", "check"} =>
        /\ (delta.pc = "size_error") <=>
              \/ Len(delta.input) < delta.width * delta.height * delta.channels
              \/ Len(delta.delta_spec) # delta.height
        /\ delta.pc = "size_error" =>
              delta.y = 0 /\ delta.output = <<>> /\ ~delta.oob_read

\* The call failed on a selector array longer than height, with an input
\* that is long enough.
Wit_C7 ==
    /\ delta.pc = "size_error"
    /\ Len(delta.delta_spec) > delta.height
    /\ Len(delta.input) >= delta.width * delta.height * delta.channels

---------------------------------------------------------------------------
\* Claims about apply_filter_2

\* The pixel the claim gives for (x, y): luma is byte y*width + x of the
\* third plane, Cb and Cr the signed bytes (y/2)*(width/2) + x/2 of the
\* first and the second plane.
ExpectedPixel(input, width, height, x, y) ==
    LET block_size == (width * height) \div 4
        c == (y \div 2) * (width \div 2) + (x \div 2)
        luma == input[2 * block_size + y * width + x + 1]
        cb == S8(input[c + 1])
        cr == S8(input[block_size + c + 1])
        lim(v) == IF v > 255 THEN 255 ELSE IF v < 0 THEN 0 ELSE v
    IN  <<lim((luma * 128 + 226 * cb) \div 128),
          lim((luma * 128 - 43 * cb - 89 * cr) \div 128),
          lim((luma * 128 + 179 * cr) \div 128)>>

\* C9: for even width and height and an input that holds the three planes,
\* apply_filter_2 returns width*height*3 bytes, the pixel (x, y) being the
\* B, G, R of the claim; every byte of the output is written exactly once,
\* no read is outside the planes and no write outside the output.
Thm_C9 ==
    yuv.pc # "idle" =>
        /\ ~yuv.oob
        /\ Len(yuv.output) = yuv.width * yuv.height * 3
        /\ \A i \in 1..Len(yuv.output) : yuv.writes[i] <= 1
        /\ yuv.pc = "done" =>
              /\ \A i \in 1..Len(yuv.output) : yuv.writes[i] = 1
              /\ \A x \in 0..(yuv.width - 1), y \in 0..(yuv.height - 1) :
                    SubSeq(yuv.output, 3 * (y * yuv.width + x) + 1,
                                       3 * (y * yuv.width + x) + 3)
                        = ExpectedPixel(yuv.input, yuv.width, yuv.height, x, y)

\* apply_filter_2 has returned an image of more than one block in each
\* direction in which a channel was clamped at 0 and one at 255.
Wit_C9 ==
    /\ yuv.pc = "done"
    /\ yuv.width = 4 /\ yuv.height = 4
    /\ \E i \in 1..Len(yuv.output) : yuv.output[i] = 0
    /\ \E i \in 1..Len(yuv.output) : yuv.output[i] = 255
    /\ \E i \in 1..Len(yuv.output) : yuv.output[i] \notin {0, 255}

---------------------------------------------------------------------------
\* Claims about the recognition predicates

\* C8: the recognition predicate of every decoder returns a boolean for
\* every stream and never ends by an exception.
CE_C8 == rec.pc \notin {"idle", "call"} => rec.pc = "returned"

====
